---- MODULE Spec2Model ----
(***************************************************************************)
(* Model of the fishing-advice backend: src/agent/__main__.py (the HTTP   *)
(* handlers) and src/agent/helpers.py (persistence gateway, search        *)
(* client, location registry, tide provider client).                      *)
(*                                                                         *)
(* Python strings are TLA+ strings; the string methods the code uses      *)
(* (lower, split, strip, title, in) are operators that compute what the   *)
(* methods compute, character by character.  An optional value is <<>>    *)
(* for None and <<v>> for a value v.                                      *)
(***************************************************************************)
EXTENDS Integers, Sequences, FiniteSets, TLC

VARIABLES
    DATABASE_AVAILABLE,  \* helpers.py module global
    users_collection,    \* documents of db['users'], in insertion order
    notes_collection,    \* documents of db['notes'], in insertion order
    utcnow,              \* the wall clock, in the store's (millisecond) units
    request,             \* the request being / last handled
    locals,              \* the locals of the handler that ran last
    response,            \* what reached the client
    pc                   \* "pending": the request waits; "done": it was handled

vars == <<DATABASE_AVAILABLE, users_collection, notes_collection, utcnow,
          request, locals, response, pc>>

-----------------------------------------------------------------------------
(* Bounds of the model *)

MaxFrags == 3        \* fragments concatenated into a free-text message
MaxWords == 3        \* fragments concatenated into a location text
MaxUsers == 2        \* documents in the users collection
MaxNotes == 1        \* documents in the notes collection
MaxClock == 1        \* last value of the wall clock

-----------------------------------------------------------------------------
(* Python values *)

None == <<>>
Some(v) == <<v>>
Truthy(o) == o # None /\ o[1] # ""

-----------------------------------------------------------------------------
(* Python str methods *)

UpperLetters == "ABCDEFGHIJKLMNOPQRSTUVWXYZ"
LowerLetters == "abcdefghijklmnopqrstuvwxyz"

CharAt(s, i) == SubSeq(s, i, i)

UpperSet == {CharAt(UpperLetters, i) : i \in 1..26}
LowerSet == {CharAt(LowerLetters, i) : i \in 1..26}

\* the lower-case letter of each upper-case letter, and the other way round
ToLower == [c \in UpperSet |->
              CharAt(LowerLetters, CHOOSE i \in 1..26 : CharAt(UpperLetters, i) = c)]
ToUpper == [c \in LowerSet |->
              CharAt(UpperLetters, CHOOSE i \in 1..26 : CharAt(LowerLetters, i) = c)]

IsCased(c) == c \in UpperSet \/ c \in LowerSet
IsSpace(c) == c \in {" ", "\t", "\n", "\r"}

LowerChar(c) == IF c \in UpperSet THEN ToLower[c] ELSE c
UpperChar(c) == IF c \in LowerSet THEN ToUpper[c] ELSE c

RECURSIVE LowerFrom(_, _)
LowerFrom(s, i) ==
    IF i > Len(s) THEN "" ELSE LowerChar(CharAt(s, i)) \o LowerFrom(s, i + 1)

\* s.lower()
Lower(s) == LowerFrom(s, 1)

\* sub in s
Contains(s, sub) ==
    \E i \in 1..(Len(s) - Len(sub) + 1) : SubSeq(s, i, i + Len(sub) - 1) = sub

\* s.find(sub) + 1: the index of the first occurrence, 0 when there is none
Find(s, sub) ==
    IF Contains(s, sub)
    THEN CHOOSE i \in 1..(Len(s) - Len(sub) + 1) :
            /\ SubSeq(s, i, i + Len(sub) - 1) = sub
            /\ \A j \in 1..(i - 1) : SubSeq(s, j, j + Len(sub) - 1) # sub
    ELSE 0

\* s.split(sep)[0]
SplitFirst(s, sep) ==
    IF Contains(s, sep) THEN SubSeq(s, 1, Find(s, sep) - 1) ELSE s

\* what follows the first occurrence of sep in s (sep occurs in s)
AfterFirst(s, sep) == SubSeq(s, Find(s, sep) + Len(sep), Len(s))

\* s.split(sep)[1], for s in which sep occurs: the text between the first
\* occurrence of sep and the next one after it
SplitSecond(s, sep) == SplitFirst(AfterFirst(s, sep), sep)

RECURSIVE LStrip(_)
LStrip(s) ==
    IF Len(s) > 0 /\ IsSpace(CharAt(s, 1)) THEN LStrip(SubSeq(s, 2, Len(s))) ELSE s

RECURSIVE RStrip(_)
RStrip(s) ==
    IF Len(s) > 0 /\ IsSpace(CharAt(s, Len(s)))
    THEN RStrip(SubSeq(s, 1, Len(s) - 1))
    ELSE s

\* s.strip()
Strip(s) == RStrip(LStrip(s))

RECURSIVE TitleFrom(_, _)
TitleFrom(s, i) ==
    IF i > Len(s) THEN ""
    ELSE LET c == CharAt(s, i)
             afterCased == i > 1 /\ IsCased(CharAt(s, i - 1))
         IN  (IF afterCased THEN LowerChar(c) ELSE UpperChar(c))
                \o TitleFrom(s, i + 1)

\* s.title()
Title(s) == TitleFrom(s, 1)

-----------------------------------------------------------------------------
(* Request bodies of POST /user/info.  A body is raw text that is not JSON, *)
(* a JSON string, or a JSON object given as its <<key, value>> pairs in     *)
(* document order (string values).                                          *)

RawBody(t) == [kind |-> "raw", text |-> t, fields |-> <<>>]
JsonString(t) == [kind |-> "string", text |-> t, fields |-> <<>>]
JsonObject(f) == [kind |-> "dict", text |-> "", fields |-> f]

\* request_body.get(key)
DictGet(fields, key) ==
    IF \E i \in 1..Len(fields) : fields[i][1] = key
    THEN Some(fields[CHOOSE i \in 1..Len(fields) : fields[i][1] = key][2])
    ELSE None

\* repr() of a str holding no quote character
PyRepr(t) == "'" \o t \o "'"

RECURSIVE DictItems(_, _)
DictItems(fields, i) ==
    IF i > Len(fields) THEN ""
    ELSE (IF i > 1 THEN ", " ELSE "")
            \o PyRepr(fields[i][1]) \o ": " \o PyRepr(fields[i][2])
            \o DictItems(fields, i + 1)

\* str(request_body)
PyStr(body) ==
    IF body.kind = "dict" THEN "{" \o DictItems(body.fields, 1) \o "}" ELSE body.text

MessageKeys == <<"text", "message", "input", "query", "content">>

\* a or b or ...: the first truthy operand, else the last one
RECURSIVE OrChain(_, _, _)
OrChain(fields, keys, i) ==
    IF i = Len(keys) \/ Truthy(DictGet(fields, keys[i]))
    THEN DictGet(fields, keys[i])
    ELSE OrChain(fields, keys, i + 1)

\* the message the handler processes
MessageOf(body) ==
    IF body.kind = "raw"
    THEN body.text                       \* json.JSONDecodeError: raw_text
    ELSE LET found == IF body.kind = "dict"
                      THEN OrChain(body.fields, MessageKeys, 1)
                      ELSE None
         IN  IF Truthy(found) THEN found[1] ELSE PyStr(body)

-----------------------------------------------------------------------------
(* The intake heuristic *)

separators == <<" and ", ", ", ". ", " i ", " like ">>
prepositions == <<" on ", " in ", " at ">>

\* NameLoop with a break after the first separator found
RECURSIVE NameLoopBreak(_, _)
NameLoopBreak(name_part, i) ==
    IF i > Len(separators) THEN name_part
    ELSE IF Contains(name_part, separators[i])
         THEN SplitFirst(name_part, separators[i])
         ELSE NameLoopBreak(name_part, i + 1)

\* the for loop over the separators: no break, every separator found in what
\* is left of name_part cuts it again
RECURSIVE NameLoop(_, _)
NameLoop(name_part, i) ==
    IF i > Len(separators) THEN name_part
    ELSE NameLoop(IF Contains(name_part, separators[i])
                  THEN SplitFirst(name_part, separators[i])
                  ELSE name_part,
                  i + 1)

ExtractName(message_lower) ==
    IF Contains(message_lower, "name is")
    THEN Some(Title(Strip(NameLoop(SplitSecond(message_lower, "name is"), 1))))
    ELSE None

LocationFrom(message_lower, prep) ==
    LET loc_part == Strip(SplitSecond(message_lower, prep))
        first == Title(Strip(SplitFirst(loc_part, ",")))
    IN  IF Contains(loc_part, ",")
        THEN first \o ", " \o Title(Strip(SplitSecond(loc_part, ",")))
        ELSE first

\* LocationLoop without its break: the last preposition found wins
RECURSIVE LocationLoopNoBreak(_, _)
LocationLoopNoBreak(message_lower, i) ==
    IF i > Len(prepositions) THEN None
    ELSE LET later == LocationLoopNoBreak(message_lower, i + 1)
         IN  IF later # None THEN later
             ELSE IF Contains(message_lower, prepositions[i])
                  THEN Some(LocationFrom(message_lower, prepositions[i]))
                  ELSE None

\* the for loop over the prepositions: break at the first one found
RECURSIVE LocationLoop(_, _)
LocationLoop(message_lower, i) ==
    IF i > Len(prepositions) THEN None
    ELSE IF Contains(message_lower, prepositions[i])
         THEN Some(LocationFrom(message_lower, prepositions[i]))
         ELSE LocationLoop(message_lower, i + 1)

ExtractLocation(message_lower) ==
    IF Contains(message_lower, "fish") THEN LocationLoop(message_lower, 1) ELSE None


-----------------------------------------------------------------------------
(* Outcomes of a handler and what the framework sends for them *)

Return(text) == [raised |-> FALSE, exc |-> "", status_code |-> 200, text |-> text]

\* raise HTTPException(status_code=..., detail=...)
HTTPException(status_code, detail) ==
    [raised |-> TRUE, exc |-> "HTTPException", status_code |-> status_code,
     text |-> detail]

\* any other exception leaving a function
Raise(exc) == [raised |-> TRUE, exc |-> exc, status_code |-> 0, text |-> ""]

\* A returned dict is sent as 200; an HTTPException as its status code and
\* detail; any other exception leaving the handler as 500.
Respond(outcome) ==
    IF ~outcome.raised THEN [status |-> 200, text |-> outcome.text]
    ELSE IF outcome.exc = "HTTPException"
         THEN [status |-> outcome.status_code, text |-> outcome.text]
         ELSE [status |-> 500, text |-> "Internal Server Error"]

NoResponse == [status |-> 0, text |-> ""]

\* result: what the helper the handler called returned, when it returned
NoLocals ==
    [message |-> None, first_name |-> None, fishing_location |-> None,
     user_info |-> None, station_id |-> None, station_data |-> None,
     tide_data |-> None, result |-> None]

-----------------------------------------------------------------------------
(* Persistence gateway: users *)

\* save_user_info: what it returns and the users collection it leaves.
\* insert_ok is whether the store carries out insert_one; an exception of
\* insert_one is caught and gives False.
save_user_info(first_name, fishing_location, insert_ok) ==
    IF ~DATABASE_AVAILABLE
    THEN [ret |-> FALSE, users |-> users_collection]
    ELSE IF insert_ok
         THEN [ret |-> TRUE,
               users |-> Append(users_collection,
                                [first_name |-> first_name,
                                 fishing_location |-> fishing_location,
                                 created_at |-> utcnow])]
         ELSE [ret |-> FALSE, users |-> users_collection]

-----------------------------------------------------------------------------
(* POST /user/info *)

ExamplePhrase == "My name is John and I fish on Long Island Sound"

DetailNotUnderstood ==
    "I couldn't understand that. Could you try saying something like: '"
        \o ExamplePhrase \o "'"
DetailNotCaught ==
    "I couldn't catch your name or fishing location. Please try saying something like: '"
        \o ExamplePhrase \o "'"
DetailTrouble ==
    "I'm having trouble understanding that. Could you try saying something like: '"
        \o ExamplePhrase \o "'"

Greeting(first_name, fishing_location) ==
    "Hey " \o first_name \o "! Great to meet you. I know " \o fishing_location
        \o " well - that's a fine spot for striped bass fishing. Let me help you figure out the best times to fish there based on the moon and tides."

\* the body of the outer try block, up to the save
CollectInner(body) ==
    LET message == MessageOf(body)
        message_lower == Lower(message)
        first_name == ExtractName(message_lower)
        fishing_location == ExtractLocation(message_lower)
    IN  IF message = ""
        THEN [outcome |-> HTTPException(400, DetailNotUnderstood),
              locals |-> [NoLocals EXCEPT !.message = Some(message)]]
        ELSE [outcome |-> IF ~Truthy(first_name) \/ ~Truthy(fishing_location)
                          THEN HTTPException(400, DetailNotCaught)
                          ELSE Return(Greeting(first_name[1], fishing_location[1])),
              locals |-> [NoLocals EXCEPT !.message = Some(message),
                                          !.first_name = first_name,
                                          !.fishing_location = fishing_location]]

\* except Exception as e: every exception raised in the try block, the
\* HTTPException of the validation included, is replaced by a 500
CollectOuter(inner) ==
    IF inner.raised THEN HTTPException(500, DetailTrouble) ELSE inner

collect_user_info(body, insert_ok) ==
    LET r == CollectInner(body)
        saved == save_user_info(r.locals.first_name[1], r.locals.fishing_location[1],
                                insert_ok)
    IN  /\ (~r.outcome.raised /\ DATABASE_AVAILABLE /\ insert_ok)
                => Len(users_collection) < MaxUsers
        /\ request' = [endpoint |-> "/user/info", arg |-> body]
        /\ locals' = IF r.outcome.raised THEN r.locals
                      ELSE [r.locals EXCEPT
                              !.result = Some(IF saved.ret THEN "True" ELSE "False")]
        /\ users_collection' =
                IF r.outcome.raised THEN users_collection ELSE saved.users
        /\ response' = Respond(CollectOuter(r.outcome))
        /\ pc' = "done"
        /\ UNCHANGED <<DATABASE_AVAILABLE, notes_collection, utcnow>>

-----------------------------------------------------------------------------
(* Free-text messages: up to MaxFrags fragments one after the other *)

Frags ==
    <<"My name is John", ", the Great", " and I fish on Cape Cod", " and I fish",
      ", NY", " name is Bob", " in Boston", " at Kings Point">>

RECURSIVE MessagesOfLen(_)
MessagesOfLen(n) ==
    IF n = 0 THEN {""}
    ELSE {m \o Frags[i] : m \in MessagesOfLen(n - 1), i \in 1..Len(Frags)}

Messages ==
    UNION {MessagesOfLen(n) : n \in 0..MaxFrags}
        \cup {"My name is John and I fish on Kings Point, NY",
              "My name is John. and I fish at Cape Cod",
              "My name is John and I fish on Cape Cod on Sundays",
              "I'm John, I like fishing. My name is John",
              "My name is John and I fish at Kings Point in Boston, MA in May",
              "I fish on Cape Cod"}

StructuredBodies ==
    {JsonObject(<< <<"first_name", "John">>, <<"fishing_location", "Cape Cod">> >>),
     JsonObject(<< <<"first_name", "John">>, <<"fishing_location", "Cape Cod">>,
                   <<"text", "My name is Bob and I fish on Boston Harbor">> >>),
     JsonObject(<< <<"text", "">>,
                   <<"query", "My name is John and I fish on Cape Cod">> >>),
     JsonObject(<< <<"content", "">> >>),
     JsonString("My name is John and I fish on Cape Cod"),
     JsonString("")}

IntakeBodies == {RawBody(m) : m \in Messages} \cup StructuredBodies

\* One POST /user/info request with a body of IntakeBodies, then its handling
InitIntake ==
    /\ DATABASE_AVAILABLE \in BOOLEAN
    /\ users_collection = <<>>
    /\ notes_collection = <<>>
    /\ utcnow = 0
    /\ request \in [endpoint : {"/user/info"}, arg : IntakeBodies]
    /\ locals = NoLocals
    /\ response = NoResponse
    /\ pc = "pending"

IntakeStep ==
    /\ pc = "pending"
    /\ \E insert_ok \in BOOLEAN : collect_user_info(request.arg, insert_ok)

NextIntake == IntakeStep

SpecIntake == InitIntake /\ [][NextIntake]_vars


-----------------------------------------------------------------------------
(* Persistence gateway: notes.  Neither accessor reads DATABASE_AVAILABLE.  *)
(* init_database assigns notes_collection only on the path that sets the    *)
(* flag, so with the flag false the global name does not exist.             *)

NotesCollectionDefined == DATABASE_AVAILABLE

\* save_note: its outcome and the notes collection it leaves
save_note(note, insert_ok) ==
    IF ~NotesCollectionDefined
    THEN [outcome |-> Raise("NameError"), notes |-> notes_collection]
    ELSE IF insert_ok
         THEN [outcome |-> Return("True"),
               notes |-> Append(notes_collection, [note |-> note])]
         ELSE [outcome |-> Raise("PyMongoError"), notes |-> notes_collection]

NoNoteText == "couldn't find any relevant note"

\* get_note_from_db: find_one(sort=[("_id", DESCENDING)]) is the document
\* inserted last
get_note_from_db(find_ok) ==
    IF ~NotesCollectionDefined THEN Raise("NameError")
    ELSE IF ~find_ok THEN Raise("PyMongoError")
    ELSE IF Len(notes_collection) > 0
         THEN Return(notes_collection[Len(notes_collection)].note)
         ELSE Return(NoNoteText)

\* POST /agent/take-note
take_note(note, insert_ok) ==
    LET r == save_note(note, insert_ok)
    IN  /\ (NotesCollectionDefined /\ insert_ok) => Len(notes_collection) < MaxNotes
        /\ request' = [endpoint |-> "/agent/take-note", arg |-> note]
        /\ locals' = [NoLocals EXCEPT
                        !.result = IF r.outcome.raised THEN None
                                   ELSE Some(r.outcome.text)]
        /\ notes_collection' = r.notes
        /\ response' = Respond(IF r.outcome.raised THEN r.outcome
                               ELSE Return("status: success"))
        /\ pc' = "done"
        /\ UNCHANGED <<DATABASE_AVAILABLE, users_collection, utcnow>>

\* GET /agent/get-note
get_note(find_ok) ==
    LET note == get_note_from_db(find_ok)
    IN
    /\ request' = [endpoint |-> "/agent/get-note", arg |-> ""]
    /\ locals' = [NoLocals EXCEPT
                    !.result = IF note.raised THEN None ELSE Some(note.text)]
    /\ response' = Respond(note)
    /\ pc' = "done"
    /\ UNCHANGED <<DATABASE_AVAILABLE, users_collection, notes_collection, utcnow>>

-----------------------------------------------------------------------------
(* Knowledge search client *)

\* What the chat-completion call can give: no response (requests.post raises),
\* a body that is not JSON, or JSON with or without the fields the client reads.
SearchReplies ==
    {[transport_ok |-> FALSE, is_json |-> FALSE, has_citations |-> FALSE,
      has_content |-> FALSE, content |-> ""],
     [transport_ok |-> TRUE, is_json |-> FALSE, has_citations |-> FALSE,
      has_content |-> FALSE, content |-> ""],
     [transport_ok |-> TRUE, is_json |-> TRUE, has_citations |-> FALSE,
      has_content |-> TRUE, content |-> "Stripers run in May"],
     [transport_ok |-> TRUE, is_json |-> TRUE, has_citations |-> TRUE,
      has_content |-> FALSE, content |-> ""],
     [transport_ok |-> TRUE, is_json |-> TRUE, has_citations |-> TRUE,
      has_content |-> TRUE, content |-> ""],
     [transport_ok |-> TRUE, is_json |-> TRUE, has_citations |-> TRUE,
      has_content |-> TRUE, content |-> "Stripers run in May"]}

\* query_perplexity: nothing is caught
query_perplexity(query, reply) ==
    IF ~reply.transport_ok THEN Raise("ConnectionError")
    ELSE IF ~reply.is_json THEN Raise("JSONDecodeError")
    ELSE IF ~reply.has_citations THEN Raise("KeyError")
    ELSE IF ~reply.has_content THEN Raise("KeyError")
    ELSE Return(reply.content)

search_from_query(note, reply) ==
    LET result == query_perplexity(note, reply)
    IN  IF result.raised THEN result
        ELSE IF result.text # "" THEN result ELSE Return(NoNoteText)

\* POST /agent/search
search(search_query, reply) ==
    LET r == search_from_query(search_query, reply)
    IN  /\ request' = [endpoint |-> "/agent/search", arg |-> reply]
        /\ locals' = [NoLocals EXCEPT
                        !.result = IF r.raised THEN None ELSE Some(r.text)]
        /\ response' = Respond(r)
        /\ pc' = "done"
        /\ UNCHANGED <<DATABASE_AVAILABLE, users_collection, notes_collection,
                       utcnow>>

-----------------------------------------------------------------------------
(* Persistence gateway: latest user *)

UsersNamed(first_name) ==
    {i \in 1..Len(users_collection) : users_collection[i].first_name = first_name}

\* get_latest_user_info: the values it can return.  find_one sorts on
\* created_at alone: among the documents of that name with the greatest
\* created_at the store is free to return any.
get_latest_user_info(first_name, find_ok) ==
    IF ~DATABASE_AVAILABLE \/ ~find_ok \/ UsersNamed(first_name) = {}
    THEN {None}
    ELSE {Some(users_collection[i]) :
            i \in {j \in UsersNamed(first_name) :
                     \A k \in UsersNamed(first_name) :
                        users_collection[k].created_at
                            <= users_collection[j].created_at}}

-----------------------------------------------------------------------------
(* Location registry and tide provider client *)

station_mapping ==
    << <<"cape cod", "8447930">>,
       <<"boston harbor", "8443970">>,
       <<"new york harbor", "8518750">>,
       <<"chesapeake bay", "8575512">>,
       <<"long island sound", "8516945">> >>

\* StationLoop without its break: the last key found wins
RECURSIVE StationLoopNoBreak(_, _)
StationLoopNoBreak(location_lower, i) ==
    IF i > Len(station_mapping) THEN None
    ELSE LET later == StationLoopNoBreak(location_lower, i + 1)
         IN  IF later # None THEN later
             ELSE IF Contains(location_lower, station_mapping[i][1])
                  THEN Some(station_mapping[i][2])
                  ELSE None

\* the for loop over station_mapping: break at the first key found
RECURSIVE StationLoop(_, _)
StationLoop(location_lower, i) ==
    IF i > Len(station_mapping) THEN None
    ELSE IF Contains(location_lower, station_mapping[i][1])
         THEN Some(station_mapping[i][2])
         ELSE StationLoop(location_lower, i + 1)

ResolveStation(location) == StationLoop(Lower(location), 1)

\* What the station-metadata call can give: "unavailable" (a
\* RequestException: transport, status or body), "ok" (the station's JSON),
\* "malformed" (JSON without a stations list).
NoaaReplies == {"unavailable", "ok", "malformed"}

\* get_noaa_station_data: the station id selected and the value returned
get_noaa_station_data(location, noaa) ==
    LET station_id == ResolveStation(location)
    IN  [station_id |-> station_id,
         ret |-> IF station_id = None \/ noaa = "unavailable" THEN None
                 ELSE IF noaa = "ok" THEN Some([stations |-> <<station_id[1]>>])
                 ELSE Some([stations |-> <<>>])]

Tides ==
    << [t |-> <<5, 12>>, type |-> "H", v |-> "3.412"],
       [t |-> <<11, 40>>, type |-> "L", v |-> "0.215"],
       [t |-> <<17, 3>>, type |-> "H", v |-> "3.901"],
       [t |-> <<23, 55>>, type |-> "L", v |-> "-0.120"],
       [t |-> <<0, 7>>, type |-> "H", v |-> "3.377"] >>

\* What the predictions call can give: "unavailable" (a RequestException),
\* JSON without a predictions field, or JSON with a list of predictions.
TideReplies ==
    {[kind |-> "unavailable", predictions |-> <<>>],
     [kind |-> "error_json", predictions |-> <<>>],
     [kind |-> "predictions", predictions |-> <<>>],
     [kind |-> "predictions", predictions |-> Tides]}

\* get_tide_predictions: None, or the JSON of the response.  The date window
\* (today to today + 3 days) only parametrises the request; the provider's
\* answer is any of TideReplies.
get_tide_predictions(station_id, tide) ==
    IF tide.kind = "unavailable" THEN None ELSE Some(tide)

-----------------------------------------------------------------------------
(* GET /fishing-conditions/{first_name} *)

Digits == "0123456789"
TwoDigits(n) == CharAt(Digits, (n \div 10) + 1) \o CharAt(Digits, (n % 10) + 1)

\* strptime(t, "%Y-%m-%d %H:%M").strftime("%I:%M %p")
TideTime(t) ==
    TwoDigits(IF t[1] % 12 = 0 THEN 12 ELSE t[1] % 12) \o ":" \o TwoDigits(t[2])
        \o (IF t[1] < 12 THEN " AM" ELSE " PM")

TideLine(tide) ==
    "- " \o tide.type \o " tide at " \o TideTime(tide.t) \o " (" \o tide.v \o " ft)\n"

RECURSIVE TideLines(_, _)
TideLines(next_tides, i) ==
    IF i > Len(next_tides) THEN ""
    ELSE TideLine(next_tides[i]) \o TideLines(next_tides, i + 1)

\* tides[:4]
FirstFour(tides) == SubSeq(tides, 1, IF Len(tides) < 4 THEN Len(tides) ELSE 4)

SupportedText ==
    "I currently support Cape Cod, Boston Harbor, New York Harbor, Chesapeake Bay, and Long Island Sound. Please try one of these locations!"

UnsupportedMessage(first_name, fishing_location) ==
    "Hey " \o first_name \o ", I don't have tide information for "
        \o fishing_location \o " yet. " \o SupportedText

TryLaterText ==
    "I'm having trouble getting the tide predictions right now. Please try again later!"

TryLaterMessage(first_name) == "Sorry " \o first_name \o ", " \o TryLaterText

ForecastHead(first_name, fishing_location) ==
    "Hey " \o first_name \o "! Here's your striped bass fishing forecast for "
        \o fishing_location
        \o ":\n\nGrandpa Spuds here, and let me tell you about the next few tides:\n\n"

ProTip ==
    "\nPro tip from Grandpa Spuds: Striped bass often feed most actively during tide changes, especially during the first two hours of an incoming tide or the last two hours of an outgoing tide. The low-light periods around dawn and dusk combined with these tide times are your best bet!"

\* HTTPException(status_code=404, message=...): HTTPException takes
\* status_code, detail and headers; the keyword message is a TypeError
RaiseNotFound(first_name) == Raise("TypeError")

\* the handler after the lookup of the user
ConditionsOutcome(first_name, user_info, noaa, tide) ==
    IF user_info = None
    THEN [outcome |-> RaiseNotFound(first_name), locals |-> NoLocals]
    ELSE
    LET location == user_info[1].fishing_location
        station == get_noaa_station_data(location, noaa)
        l1 == [NoLocals EXCEPT !.user_info = user_info,
                               !.station_id = station.station_id,
                               !.station_data = station.ret]
    IN  IF station.ret = None
        THEN [outcome |-> Return(UnsupportedMessage(first_name, location)),
              locals |-> l1]
        ELSE IF Len(station.ret[1].stations) = 0
        THEN [outcome |-> Raise("KeyError"), locals |-> l1]
        ELSE
        LET tide_data == get_tide_predictions(station.ret[1].stations[1], tide)
            l2 == [l1 EXCEPT !.tide_data = tide_data]
        IN  IF tide_data = None \/ tide_data[1].kind # "predictions"
            THEN [outcome |-> Return(TryLaterMessage(first_name)), locals |-> l2]
            ELSE [outcome |->
                    Return(ForecastHead(first_name, location)
                            \o TideLines(FirstFour(tide_data[1].predictions), 1)
                            \o ProTip),
                  locals |-> l2]

get_fishing_conditions(first_name, find_ok, noaa, tide) ==
    \E user_info \in get_latest_user_info(first_name, find_ok) :
        LET r == ConditionsOutcome(first_name, user_info, noaa, tide)
        IN  /\ request' = [endpoint |-> "/fishing-conditions",
                           arg |-> [first_name |-> first_name, noaa |-> noaa,
                                    tide |-> tide]]
            /\ locals' = r.locals
            /\ response' = Respond(r.outcome)
            /\ pc' = "done"
            /\ UNCHANGED <<DATABASE_AVAILABLE, users_collection, notes_collection,
                           utcnow>>

-----------------------------------------------------------------------------
(* GET / and GET /test/route *)

WelcomeText ==
    "Welcome! I'm Grandpa Spuds Oakley, your friendly AI fishing guide. Please share your first name and where you'd like to go fishing. I'll help you find the best times to catch striped bass based on moon phases and tides!"

TestRouteText ==
    "Hello, We are going to tell ya when the best times to fish for striped bass are based on the moon and the tides if that's ok with you"

read_root(endpoint) ==
    /\ request' = [endpoint |-> endpoint, arg |-> ""]
    /\ locals' = NoLocals
    /\ response' = Respond(Return(IF endpoint = "/" THEN WelcomeText
                                  ELSE TestRouteText))
    /\ pc' = "done"
    /\ UNCHANGED <<DATABASE_AVAILABLE, users_collection, notes_collection, utcnow>>

-----------------------------------------------------------------------------
(* The server: started once, then requests one after the other *)

ServerBodies ==
    {RawBody(""),
     RawBody("hello there"),
     RawBody("My name is John and I fish on Cape Cod"),
     RawBody("My name is John and I fish in Miami"),
     JsonObject(<< <<"first_name", "John">>, <<"fishing_location", "Cape Cod">> >>)}

Names == {"John", "Ann"}
NoteTexts == {"test"}
Queries == {"when do stripers run"}

\* init_database has run: the flag is set iff the store answered the ping
Init ==
    /\ DATABASE_AVAILABLE \in BOOLEAN
    /\ users_collection = <<>>
    /\ notes_collection = <<>>
    /\ utcnow = 0
    /\ request = [endpoint |-> "", arg |-> ""]
    /\ locals = NoLocals
    /\ response = NoResponse
    /\ pc = "done"

PostUserInfo ==
    \E body \in ServerBodies, insert_ok \in BOOLEAN : collect_user_info(body, insert_ok)

PostTakeNote ==
    \E note \in NoteTexts, insert_ok \in BOOLEAN : take_note(note, insert_ok)

GetNote == \E find_ok \in BOOLEAN : get_note(find_ok)

PostSearch == \E q \in Queries, reply \in SearchReplies : search(q, reply)

GetFishingConditions ==
    \E first_name \in Names, find_ok \in BOOLEAN, noaa \in NoaaReplies,
       tide \in TideReplies :
        get_fishing_conditions(first_name, find_ok, noaa, tide)

GetRoot == \E endpoint \in {"/", "/test/route"} : read_root(endpoint)

\* time passes between two requests, or does not: created_at has the
\* store's resolution, and two saves can read the same instant
Tick ==
    /\ utcnow < MaxClock
    /\ utcnow' = utcnow + 1
    /\ UNCHANGED <<DATABASE_AVAILABLE, users_collection, notes_collection,
                   request, locals, response, pc>>

Next ==
    \/ PostUserInfo
    \/ PostTakeNote
    \/ GetNote
    \/ PostSearch
    \/ GetFishingConditions
    \/ GetRoot
    \/ Tick

Spec == Init /\ [][Next]_vars


-----------------------------------------------------------------------------
(* The location registry alone: one call of get_noaa_station_data on a      *)
(* location text of up to MaxWords fragments                                *)

Words ==
    <<"Cape Cod", "BOSTON HARBOR", "new york harbor", "Chesapeake Bay",
      "Long Island SOUND", "Miami", " and ", "cape ">>

RECURSIVE TextsOfLen(_)
TextsOfLen(n) ==
    IF n = 0 THEN {""}
    ELSE {t \o Words[i] : t \in TextsOfLen(n - 1), i \in 1..Len(Words)}

LocationTexts == UNION {TextsOfLen(n) : n \in 0..MaxWords}

InitRegistry ==
    /\ DATABASE_AVAILABLE \in BOOLEAN
    /\ users_collection = <<>>
    /\ notes_collection = <<>>
    /\ utcnow = 0
    /\ request \in [endpoint : {"get_noaa_station_data"}, arg : LocationTexts]
    /\ locals = NoLocals
    /\ response = NoResponse
    /\ pc = "pending"

RegistryStep ==
    /\ pc = "pending"
    /\ \E noaa \in NoaaReplies :
        LET station == get_noaa_station_data(request.arg, noaa)
        IN  locals' = [NoLocals EXCEPT !.station_id = station.station_id,
                                       !.station_data = station.ret]
    /\ pc' = "done"
    /\ UNCHANGED <<DATABASE_AVAILABLE, users_collection, notes_collection, utcnow,
                   request, response>>

NextRegistry == RegistryStep

SpecRegistry == InitRegistry /\ [][NextRegistry]_vars


-----------------------------------------------------------------------------
(* Properties *)

Handled(endpoint) == pc = "done" /\ request.endpoint = endpoint

\* the validation of POST /user/info fails: name or location unset or empty
IntakeInvalid ==
    ~Truthy(locals.first_name) \/ ~Truthy(locals.fishing_location)

\* C1: every POST /user/info whose message yields an unset or empty name or
\* location is answered with status 400 and a detail holding an example
\* phrase, never with status 500.
C1_ValidationFailureIs400 ==
    (Handled("/user/info") /\ IntakeInvalid)
        => /\ response.status = 400
           /\ Contains(response.text, ExamplePhrase)

\* C2: GET /fishing-conditions/{name} answers 404 whenever the lookup of the
\* user finds no record (the store being unavailable included).
C2_NoRecordIs404 ==
    (Handled("/fishing-conditions") /\ locals.user_info = None)
        => response.status = 404

\* the tide provider yields no usable predictions
NoUsablePredictions ==
    \/ request.arg.noaa = "unavailable"
    \/ /\ request.arg.noaa = "ok"
       /\ \/ request.arg.tide.kind = "unavailable"
          \/ /\ request.arg.tide.kind = "predictions"
             /\ request.arg.tide.predictions = <<>>

\* C3: for a stored user whose location resolves to a station, no usable
\* predictions (station metadata unavailable, predictions unavailable, or an
\* empty prediction list) give status 200 with the "try again later" message.
C3_NoPredictionsIsTryLater ==
    (/\ Handled("/fishing-conditions")
     /\ locals.user_info # None
     /\ locals.station_id # None
     /\ NoUsablePredictions)
        => /\ response.status = 200
           /\ response.text = TryLaterMessage(request.arg.first_name)

\* C4: with the store-available flag false every accessor returns without
\* raising and without touching the store: save user and save note return
\* false, latest user and latest note return their not-found result.
C4_UnavailableAccessorsReturn ==
    (~DATABASE_AVAILABLE /\ pc = "done")
        => /\ users_collection = <<>> /\ notes_collection = <<>>
           /\ (request.endpoint = "/user/info" /\ ~IntakeInvalid)
                => locals.result = Some("False")
           /\ request.endpoint = "/fishing-conditions" => locals.user_info = None
           /\ request.endpoint = "/agent/take-note" => locals.result = Some("False")
           /\ request.endpoint = "/agent/get-note"
                => locals.result = Some(NoNoteText)

\* the document of that name inserted last
LastInserted(first_name) ==
    users_collection[CHOOSE i \in UsersNamed(first_name) :
                        \A j \in UsersNamed(first_name) : j <= i]

\* C5: latest-user-by-name returns the record of the last save-user call made
\* with that name, also when several records of the name share a created_at.
C5_LatestIsLastInserted ==
    (Handled("/fishing-conditions") /\ locals.user_info # None)
        => locals.user_info = Some(LastInserted(request.arg.first_name))

\* the body is a JSON object with explicit name and location fields
Structured ==
    /\ request.arg.kind = "dict"
    /\ Truthy(DictGet(request.arg.fields, "first_name"))
    /\ Truthy(DictGet(request.arg.fields, "fishing_location"))

\* C6: a JSON object with explicit name and location fields is taken in with
\* those values, whatever free-text extraction gives, and the request succeeds.
C6_StructuredFieldsPreferred ==
    (Handled("/user/info") /\ Structured)
        => /\ response.status = 200
           /\ locals.first_name = DictGet(request.arg.fields, "first_name")
           /\ locals.fishing_location
                = DictGet(request.arg.fields, "fishing_location")

KeyIn(i, text) == Contains(Lower(text), station_mapping[i][1])
KeyIndices == 1..Len(station_mapping)

\* C7 as stated: the lookup selects the station of every known key the
\* lowercased text contains, and none when it contains no key.
C7_EveryContainedKey ==
    pc = "done"
        => /\ \A i \in KeyIndices :
                KeyIn(i, request.arg)
                    => locals.station_id = Some(station_mapping[i][2])
           /\ (\A i \in KeyIndices : ~KeyIn(i, request.arg))
                => locals.station_id = None

\* C7 amended: the lookup selects the station of the first key, in the order
\* the mapping declares them, that the lowercased text contains (so the one
\* key's station when it contains exactly one), and none when it contains
\* no key.
C7_FirstContainedKey ==
    pc = "done"
        => /\ \A i \in KeyIndices :
                (KeyIn(i, request.arg)
                    /\ \A j \in 1..(i - 1) : ~KeyIn(j, request.arg))
                    => locals.station_id = Some(station_mapping[i][2])
           /\ (\A i \in KeyIndices : ~KeyIn(i, request.arg))
                => locals.station_id = None

\* a text holding two keys, in mixed case, the second declared one first
C7_Witness ==
    /\ pc = "done"
    /\ request.arg = "BOSTON HARBOR and Cape Cod"
    /\ locals.station_id = Some("8447930")

\* the handled message, lowercased
MessageLower == Lower(locals.message[1])

HasNameTrigger ==
    Handled("/user/info") /\ locals.message # None /\ Contains(MessageLower, "name is")

\* s up to the first occurrence of sep, all of s when there is none
Before(s, sep) == IF Contains(s, sep) THEN SubSeq(s, 1, Find(s, sep) - 1) ELSE s

\* s cut once, at the first separator of the list that occurs in it
RECURSIVE CutOnce(_, _)
CutOnce(s, i) ==
    IF i > Len(separators) THEN s
    ELSE IF Contains(s, separators[i]) THEN Before(s, separators[i])
         ELSE CutOnce(s, i + 1)

\* C9 as stated: the name is the text after "name is", truncated once at the
\* first delimiter of the list found, trimmed and title-cased.
C9_TruncatedOnce ==
    HasNameTrigger
        => locals.first_name
            = Some(Title(Strip(CutOnce(AfterFirst(MessageLower, "name is"), 1))))

\* s cut at each of the five delimiters in turn
CutAtEach(s) ==
    Before(Before(Before(Before(Before(s, " and "), ", "), ". "), " i "), " like ")

\* C9 amended: the name is the text between the first "name is" and the next
\* one (the end of the message when there is none), truncated at each
\* delimiter of the list in turn, in list order, where it occurs in what is
\* left, then trimmed and title-cased; "My name is John and I fish on Cape
\* Cod" gives name "John" and location "Cape Cod".
C9_TruncatedAtEach ==
    /\ HasNameTrigger
        => locals.first_name
            = Some(Title(Strip(CutAtEach(
                    Before(AfterFirst(MessageLower, "name is"), "name is")))))
    /\ (Handled("/user/info")
            /\ locals.message = Some("My name is John and I fish on Cape Cod"))
        => /\ locals.first_name = Some("John")
           /\ locals.fishing_location = Some("Cape Cod")

\* a later delimiter of the list (", ") stands before an earlier one (" and ")
C9_Witness ==
    /\ HasNameTrigger
    /\ locals.message = Some("My name is John, the Great and I fish on Cape Cod")
    /\ locals.first_name = Some("John")

HasFishTrigger ==
    Handled("/user/info") /\ locals.message # None /\ Contains(MessageLower, "fish")

\* the location built from the text that follows the preposition
Built(text) ==
    LET t == Strip(text)
    IN  IF Contains(t, ",")
        THEN Title(Strip(Before(t, ","))) \o ", "
                \o Title(Strip(Before(AfterFirst(t, ","), ",")))
        ELSE Title(t)

\* C10 as stated: with "fish" in the message the location is built from the
\* whole remainder after the first of " on ", " in ", " at " that occurs;
\* without "fish" or without any of the three it is unset.
C10_WholeRemainder ==
    /\ HasFishTrigger =>
        LET m == MessageLower
        IN  locals.fishing_location =
                IF Contains(m, " on ") THEN Some(Built(AfterFirst(m, " on ")))
                ELSE IF Contains(m, " in ") THEN Some(Built(AfterFirst(m, " in ")))
                ELSE IF Contains(m, " at ") THEN Some(Built(AfterFirst(m, " at ")))
                ELSE None
    /\ (Handled("/user/info") /\ ~HasFishTrigger) => locals.fishing_location = None

\* what follows the first occurrence of prep, up to its next occurrence
UpToNext(m, prep) == Before(AfterFirst(m, prep), prep)

\* C10 amended: with "fish" in the message the location is built from the
\* text between the first occurrence of the first of " on ", " in ", " at "
\* that occurs and the next occurrence of that same preposition (the end of
\* the message when there is none): trimmed, split on commas, the
\* title-cased first segment, then ", " and the title-cased second segment
\* when there is one; without "fish" or without any of the three it is unset.
C10_UpToNextPreposition ==
    /\ HasFishTrigger =>
        LET m == MessageLower
        IN  locals.fishing_location =
                IF Contains(m, " on ") THEN Some(Built(UpToNext(m, " on ")))
                ELSE IF Contains(m, " in ") THEN Some(Built(UpToNext(m, " in ")))
                ELSE IF Contains(m, " at ") THEN Some(Built(UpToNext(m, " at ")))
                ELSE None
    /\ (Handled("/user/info") /\ ~HasFishTrigger) => locals.fishing_location = None
    /\ (Handled("/user/info")
            /\ locals.message = Some("My name is John and I fish on Kings Point, NY"))
        => locals.fishing_location = Some("Kings Point, Ny")

\* " in " wins over " at " and occurs twice; a region follows the comma
C10_Witness ==
    /\ HasFishTrigger
    /\ locals.message
        = Some("My name is John and I fish at Kings Point in Boston, MA in May")
    /\ locals.fishing_location = Some("Boston, Ma")

\* the search call fails in transport or its response lacks what the client reads
SearchFails ==
    \/ ~request.arg.transport_ok
    \/ ~request.arg.is_json
    \/ ~request.arg.has_citations
    \/ ~request.arg.has_content

\* C8: when the chat-completion call fails in transport or its response lacks
\* the expected shape, the search client returns a fallback string and
\* POST /agent/search still answers with a result.
C8_SearchFallsBack ==
    (Handled("/agent/search") /\ SearchFails)
        => /\ locals.result # None
           /\ response.status = 200


====
